---- MODULE Spec2Model ----
(***************************************************************************)
(* The concurrent extraction pipeline of codalysis: process_repo fans out  *)
(* one process_file task per work item under an asyncio.Semaphore; each    *)
(* task runs the function-level and then the file-level extraction, each   *)
(* one get_response call with its retry loop, and writes its artifacts.    *)
(*                                                                         *)
(* One action is one scheduler step of the asyncio event loop: the code a  *)
(* coroutine runs between two suspension points.  The suspension points    *)
(* are the semaphore acquire (when it has to wait), the model request and  *)
(* the retry sleep; everything else (validation, printing, file I/O) is    *)
(* synchronous and belongs to the step that reaches it.                    *)
(***************************************************************************)
EXTENDS Integers, Sequences, FiniteSets, TLC

\* ---------------------------------------------------------------- bounds
NumFiles == 2          \* candidate source files of the repository
MaxConcurrency == 2    \* largest concurrency argument explored
MaxRetries == 3        \* largest retries argument explored
MaxElems == 3          \* longest function-level response array explored
MaxTokens == 2         \* largest token count of a candidate file explored
MaxRuns == 2           \* runs of main over the same output tree explored
MaxLines == 3          \* most lines of a response text explored

\* ------------------------------------------------------ program constants
DEFAULT_RETRIES == 2   \* get_response(prompt, retries: int = 2, ...)
DEFAULT_DELAY == 1     \* get_response(prompt, ..., delay: int = 1)

Files == 1 .. NumFiles

\* ------------------------------------------------------------ record data
\* Keys a function-level response element may carry.  The values behind the
\* keys are not modelled: an element is the set of keys it has.
FunctionRequired == {"function_name", "arguments", "return_type", "functionality", "tags"}
FunctionOptional == {"class_name", "file_name"}
FileRequired == {"overall_purpose_and_domain", "primary_responsibilities", "tags"}
Provenance == {"filepath", "repository_url", "group_name", "repo_name"}

ElemF == [name |-> "f", keys |-> FunctionRequired]
ElemG == [name |-> "g", keys |-> FunctionRequired \cup {"class_name"}]
ElemNoReturn == [name |-> "h", keys |-> FunctionRequired \ {"return_type"}]
Elements == {ElemF, ElemG, ElemNoReturn}

FileObjOk == [name |-> "file", keys |-> FileRequired]
FileObjBad == [name |-> "file", keys |-> FileRequired \ {"tags"}]

\* A parsed model answer: an array of elements, a single object, or a value
\* that is neither (None, a number).
Array(s) == [shape |-> "array", elems |-> s]
Object(o) == [shape |-> "object", elems |-> <<o>>]
Scalar == [shape |-> "scalar", elems |-> <<>>]
Unset == [shape |-> "unset", elems |-> <<>>]

\* What one request can come back with: an exception of the attempt, or text
\* that from_json parsed to a value.
Raises(e) == [ok |-> FALSE, exc |-> e, value |-> Scalar]
Returns(v) == [ok |-> TRUE, exc |-> "", value |-> v]

RECURSIVE SeqsUpTo(_, _)
SeqsUpTo(S, n) ==
    IF n = 0 THEN {<<>>}
    ELSE LET shorter == SeqsUpTo(S, n - 1)
         IN shorter \cup {Append(s, x) : s \in {q \in shorter : Len(q) = n - 1}, x \in S}

\* file_name=..., filepath=..., **r raises TypeError when r repeats a keyword,
\* and the pydantic model raises ValidationError when a required field is
\* missing; both are caught per element.
ValidFunctionElem(r) ==
    /\ FunctionRequired \subseteq r.keys
    /\ r.keys \cap (Provenance \cup {"file_name"}) = {}

ValidFileObj(v) ==
    /\ v.shape = "object"
    /\ FileRequired \subseteq v.elems[1].keys
    /\ v.elems[1].keys \cap (Provenance \cup {"file_name"}) = {}

\* model_dump() of the validated record: every field of the model, the
\* defaults filled in, the provenance of the work item attached.
Dump(r, t, required, optional) ==
    [name |-> r.name, keys |-> required \cup optional \cup Provenance, filepath |-> t]

\* Faulty variant: a loop that stops at the first element failing validation.
RECURSIVE validated_results_aborting(_, _)
validated_results_aborting(elems, t) ==
    IF elems = <<>> \/ ~ValidFunctionElem(Head(elems)) THEN <<>>
    ELSE <<Dump(Head(elems), t, FunctionRequired, FunctionOptional)>>
         \o validated_results_aborting(Tail(elems), t)

RECURSIVE validated_results(_, _)
validated_results(elems, t) ==
    IF elems = <<>> THEN <<>>
    ELSE LET rest == validated_results(Tail(elems), t)
         IN IF ValidFunctionElem(Head(elems))
            THEN <<Dump(Head(elems), t, FunctionRequired, FunctionOptional)>> \o rest
            ELSE rest

\* ---------------------------------------------------------------- disk
Absent == [state |-> "absent", records |-> <<>>]
Complete(recs) == [state |-> "complete", records |-> recs]
Partial == [state |-> "partial", records |-> <<>>]

Kinds == {"function", "file"}
Paths == Files \X Kinds


VARIABLES
    concurrency,   \* process_repo's concurrency argument
    retries,       \* get_response's retries argument
    delay,         \* get_response's delay argument
    max_files,     \* process_repo's max_files argument (-1 is None)
    replies,       \* the endpoint: replies[<<t, kind>>] = what a request may come back with
    faults,        \* the filesystem: <<t, op>> pairs whose I/O may fail
    tokens,        \* per candidate file: len(tokenizer.encode(code))
    token_limit,   \* process_repo's token_limit argument (-1 is None)
    unreadable,    \* candidate files whose read_codefile / tokenizer.encode raises
    walk,          \* the order in which os.walk lists the artifact paths
    file_tokens,   \* process_repo: the dict get_file_tokens returned, in insertion order
    tasks,         \* process_repo: the work items of the coroutines in its tasks list
    run,           \* which run of main over the output tree this is
    prev,          \* how the run before this one ended: its tasks, its log, the tree it left
    response,      \* get_response: the message content of one attempt, a string of characters
    payload,       \* get_response: the text it hands to from_json
    corpus,        \* read_output: the AnalysisResults it returned
    repoPc,        \* process_repo: "start", "gather", "returned", "raised"
    closed,        \* asyncio.run has shut the loop down
    pc,            \* per task: created, waiting, granted, call, sleep, done, raised, cancelled
    step,          \* per task: index into process_file_order of the running extraction
    i,             \* per get_response call <<t, kind>>: its loop variable
    result,        \* per call <<t, kind>>: function_result / file_result, the value returned
    semValue,      \* semaphore._value
    waiters,       \* semaphore._waiters
    held,          \* tasks inside "async with semaphore"
    inflight,      \* requests sent to the endpoint and not yet answered
    called,        \* per task: the extractions whose get_response call has begun
    disk,          \* artifact path -> content
    log,           \* per task: what the run printed about it
    failures,      \* per get_response call <<t, kind>>: its failed attempts, each with the sleep after it
    tally          \* counts of this run: slot acquisitions per task, get_response calls begun, open(path, "w") per path

vars == <<concurrency, retries, delay, max_files, replies, faults, tokens, token_limit, unreadable, walk,
          file_tokens, tasks, run, prev, response, payload, corpus, repoPc, closed, pc, step, i, result,
          semValue, waiters, held, inflight, called, disk, log, failures, tally>>

env == <<concurrency, retries, delay, max_files, replies, faults, tokens, token_limit, unreadable, walk>>

plan == <<file_tokens, tasks>>

runs == <<run, prev>>

\* What belongs to the parts of the program a pipeline step does not touch.
elsewhere == <<response, payload, corpus>>

Event(ev, exc, n) == [ev |-> ev, exc |-> exc, n |-> n]


\* ------------------------------------------------------------- semaphore
\* asyncio.Semaphore(concurrency): the initial counter.
\* Faulty variant: a semaphore twice the size.
SemaphoreDoubled(c) == 2 * c
Semaphore(c) == c

FirstWaiting(ws, p) ==
    LET idx == {k \in 1 .. Len(ws) : p[ws[k]] = "waiting"}
    IN IF idx = {} THEN 0 ELSE ws[CHOOSE k \in idx : \A m \in idx : k <= m]

\* Semaphore.locked(): no free slot, or somebody is already queued.
\* Faulty variant: an acquire that never finds the semaphore locked.
lockedNever(value, ws) == FALSE
locked(value, ws) == value = 0 \/ ws # <<>>

\* Semaphore._wake_up_next(): hand one slot to the first waiter not yet woken.
wake_up_next(value, ws, p) ==
    LET w == FirstWaiting(ws, p)
    IN IF w = 0 THEN [value |-> value, pc |-> p]
       ELSE [value |-> value - 1, pc |-> [p EXCEPT ![w] = "granted"]]

\* Semaphore.release()
\* Faulty variant: the counter goes up and no waiter is woken.
release_no_wake(value, ws, p) == [value |-> value + 1, pc |-> p]
release(value, ws, p) == wake_up_next(value + 1, ws, p)

\* ------------------------------------------------------------ the program
\* process_file: the extractions it awaits, in order.
\* Faulty variant: the two extractions awaited in the other order.
process_file_order_swapped == <<"file", "function">>
process_file_order == <<"function", "file">>

\* The "async with semaphore" block encloses every extraction of the task.
\* Faulty variant: the semaphore block closed after the first extraction.
holds_slot_during_first_only(k) == k = 1
holds_slot_during(k) == TRUE

\* process_file awaits the next extraction when one returns; an extraction
\* that failed has swallowed its exception and returns like any other.
\* Faulty variant: a failed extraction ends the task.
step_after_skipping(k, failed) == IF failed THEN Len(process_file_order) + 1 ELSE k + 1
\* Faulty variant: an extraction that returned is awaited once more.
step_after_repeating(k, failed) == IF failed THEN k + 1 ELSE k
step_after(k, failed) == k + 1

\* "except Exception" in process_function_description and
\* process_file_description: everything but a BaseException such as
\* asyncio.CancelledError.
\* Faulty variant: an except clause that catches nothing.
except_nothing(e) == FALSE
except_Exception(e) == e # "CancelledError"

\* get_response, "if i < retries - 1: sleep, else: raise"
\* Faulty variant: an off-by-one in the retry test.
retry_after_failure_once_more(idx, R) == idx < R
retry_after_failure(idx, R) == idx < R - 1

\* get_response, "await asyncio.sleep(delay)" after the failed attempt idx.
\* Faulty variant: a delay that grows with the attempts.
sleep_delay_growing(idx, d) == d * (idx + 1)
sleep_delay(idx, d) == d

\* get_response, "for i in range(retries)": is there a first iteration
range_nonempty(R) == R > 0

\* process_repo, "if max_files is not None and processed_files_count >= max_files: break"
\* Faulty variant: the loop breaks one work item late.
Dispatched_one_late(n, m) == IF m # -1 /\ m + 1 < n THEN (IF m < 0 THEN 0 ELSE m + 1) ELSE n
Dispatched(n, m) == IF m # -1 /\ m < n THEN (IF m < 0 THEN 0 ELSE m) ELSE n

ErrorEvent(kind) == IF kind = "function" THEN "function_error" ELSE "file_error"
SavedEvent(kind) == IF kind = "function" THEN "function_saved" ELSE "file_saved"

\* ---------------------------------------------------------- artifact paths
\* A path is the sequence of its components.  The candidate files lie in
\* two directories of the repository, and files of different directories
\* share their names.
filepath(f) == <<"repo_path", (IF f % 2 = 1 THEN "a" ELSE "b"), (f + 1) \div 2>>

\* os.path.relpath(filepath, repo.repo_path)
relpath(path) == Tail(path)

\* process_file's output_filepath_base with the suffix of one artifact.  The
\* two suffixes end differently, so a base and a suffix are kept apart.
\* Faulty variant: the artifact is named after the file's basename only.
artifact_path_flat(f, kind) ==
    [base |-> <<"output_dir", "group_name", "repo_name", relpath(filepath(f))[Len(relpath(filepath(f)))]>>,
     suffix |-> kind]
artifact_path(f, kind) ==
    [base |-> <<"output_dir", "group_name", "repo_name">> \o relpath(filepath(f)), suffix |-> kind]

ArtifactPaths == {artifact_path(p[1], p[2]) : p \in Paths}

NoTally ==
    [acquires |-> [t \in Files |-> 0],
     starts |-> [p \in Paths |-> 0],
     opens |-> [x \in ArtifactPaths |-> 0]]

\* The mutable state as one record, so that the synchronous part of a step
\* is a composition of functions on it.
Now ==
    [pc |-> pc, step |-> step, i |-> i, result |-> result, semValue |-> semValue, waiters |-> waiters,
     held |-> held, inflight |-> inflight, called |-> called, disk |-> disk, log |-> log,
     failures |-> failures, tally |-> tally]

Becomes(S) ==
    /\ pc' = S.pc
    /\ step' = S.step
    /\ i' = S.i
    /\ result' = S.result
    /\ semValue' = S.semValue
    /\ waiters' = S.waiters
    /\ held' = S.held
    /\ inflight' = S.inflight
    /\ called' = S.called
    /\ disk' = S.disk
    /\ log' = S.log
    /\ failures' = S.failures
    /\ tally' = S.tally

Printed(S, t, e) == [S EXCEPT !.log[t] = @ \cup {e}]

\* get_response's except clause: the attempt failed with exc and is, or is
\* not, followed by asyncio.sleep(d).
Failed(S, p, exc, slept, d) ==
    [S EXCEPT !.failures[p] = Append(@, [exc |-> exc, slept |-> slept, delay |-> d])]

SemRelease(S, t) ==
    LET r == release(S.semValue, S.waiters, S.pc)
    IN [S EXCEPT !.semValue = r.value, !.pc = r.pc, !.held = @ \ {t}]

\* The task leaves process_file, normally or with an exception: __aexit__
\* releases the slot.
\* Faulty variant: an exception leaves the block without the release.
End_leaking(S, t, how) ==
    LET S1 == IF t \in S.held /\ how # "raised" THEN SemRelease(S, t)
              ELSE [S EXCEPT !.held = @ \ {t}]
    IN [S1 EXCEPT !.pc[t] = how]
End(S, t, how) ==
    LET S1 == IF t \in S.held THEN SemRelease(S, t) ELSE S
    IN [S1 EXCEPT !.pc[t] = how]

\* open(path, "w"): the file is created or truncated, whatever it held.
\* Faulty variant: the file is opened for appending.
open_a(old) == IF old = Absent THEN Partial ELSE old
open_w(old) == Partial

\* json.dump(content, f): the records go after what the open file holds.
json_dump(file, content) == Complete(file.records \o content)

\* open(path, "w") / json.dump of one artifact.  content is what json.dump
\* is given; bound = FALSE when the name it reads was never assigned.
\* Faulty variant: a write that fails after the open removes the file.
WriteArtifact_removing(S, t, kind, content, bound, w) ==
    LET Opened == [S EXCEPT !.tally.opens[artifact_path(t, kind)] = @ + 1]
    IN IF w = "open_fails"
       THEN Printed(S, t, Event(ErrorEvent(kind), "OSError", 0))
       ELSE IF ~bound
       THEN Printed([Opened EXCEPT !.disk[<<t, kind>>] = Absent], t,
                    Event(ErrorEvent(kind), "UnboundLocalError", 0))
       ELSE IF w = "dump_fails"
       THEN Printed([Opened EXCEPT !.disk[<<t, kind>>] = Absent], t,
                    Event(ErrorEvent(kind), "OSError", 0))
       ELSE Printed([Opened EXCEPT !.disk[<<t, kind>>] = json_dump(open_w(@), content)], t,
                    Event(SavedEvent(kind), "", 0))
WriteArtifact(S, t, kind, content, bound, w) ==
    LET Opened == [S EXCEPT !.tally.opens[artifact_path(t, kind)] = @ + 1]
    IN IF w = "open_fails"
       THEN Printed(S, t, Event(ErrorEvent(kind), "OSError", 0))
       ELSE IF ~bound
       THEN Printed([Opened EXCEPT !.disk[<<t, kind>>] = open_w(@)], t,
                    Event(ErrorEvent(kind), "UnboundLocalError", 0))
       ELSE IF w = "dump_fails"
       THEN Printed([Opened EXCEPT !.disk[<<t, kind>>] = open_w(@)], t,
                    Event(ErrorEvent(kind), "OSError", 0))
       ELSE Printed([Opened EXCEPT !.disk[<<t, kind>>] = json_dump(open_w(@), content)], t,
                    Event(SavedEvent(kind), "", 0))

\* process_function_description, from the value get_response returned.
\* Faulty variant: nothing is written when no record survives.
HandleFunctionResult_unless_empty(S, t, v, w) ==
    IF v.shape = "scalar"
    THEN Printed(S, t, Event("function_error", "TypeError", 0))
    ELSE LET elems == IF v.shape = "array" THEN v.elems ELSE <<>>
             kept == validated_results(elems, t)
             dropped == IF v.shape = "array" THEN Len(elems) - Len(kept) ELSE 1
             S1 == IF dropped > 0
                   THEN Printed(S, t, Event("function_validation_error", "ValidationError", dropped))
                   ELSE S
         IN IF kept = <<>> THEN S1 ELSE WriteArtifact(S1, t, "function", kept, TRUE, w)
HandleFunctionResult(S, t, v, w) ==
    IF v.shape = "scalar"
    THEN Printed(S, t, Event("function_error", "TypeError", 0))
    ELSE LET elems == IF v.shape = "array" THEN v.elems ELSE <<>>
             kept == validated_results(elems, t)
             dropped == IF v.shape = "array" THEN Len(elems) - Len(kept) ELSE 1
             S1 == IF dropped > 0
                   THEN Printed(S, t, Event("function_validation_error", "ValidationError", dropped))
                   ELSE S
         IN WriteArtifact(S1, t, "function", kept, TRUE, w)

\* process_file_description, from the value get_response returned.
HandleFileResult(S, t, v, w) ==
    IF ValidFileObj(v)
    THEN WriteArtifact(S, t, "file", <<Dump(v.elems[1], t, FileRequired, {"file_name"})>>, TRUE, w)
    ELSE WriteArtifact(Printed(S, t, Event("file_validation_error", "ValidationError", 1)),
                       t, "file", <<>>, FALSE, w)

HandleResult(S, t, kind, v, w) ==
    IF kind = "function" THEN HandleFunctionResult(S, t, v, w[1]) ELSE HandleFileResult(S, t, v, w[2])

\* process_file from its k-th extraction on, up to the next suspension point.
\* w = <<outcome of the function artifact write, of the file artifact write>>.
RECURSIVE BeginStep(_, _, _, _)
AfterStep(S, t, k, failed, w) ==
    LET n == step_after(k, failed)
    IN IF n > Len(process_file_order) THEN End(S, t, "done") ELSE BeginStep(S, t, n, w)

BeginStep(S, t, k, w) ==
    LET kind == process_file_order[k]
        S1 == IF ~holds_slot_during(k) /\ t \in S.held THEN SemRelease(S, t) ELSE S
        S2 == [S1 EXCEPT !.called[t] = @ \cup {kind}, !.step[t] = k, !.i[<<t, kind>>] = 0,
                         !.tally.starts[<<t, kind>>] = @ + 1]
    IN IF range_nonempty(retries)
       THEN [S2 EXCEPT !.pc[t] = "call", !.inflight = @ \cup {<<t, kind>>}]
       ELSE AfterStep(HandleResult([S2 EXCEPT !.result[<<t, kind>>] = Scalar], t, kind, Scalar, w),
                      t, k, FALSE, w)

\* process_file once the slot is acquired: makedirs, then the extractions.
Enter(S, t, mk, w) ==
    LET S1 == [S EXCEPT !.held = @ \cup {t}, !.tally.acquires[t] = @ + 1]
    IN IF mk = "fails" THEN End(S1, t, "raised") ELSE BeginStep(S1, t, 1, w)

\* os.makedirs and open/json.dump succeed, or fail where the filesystem lets them:
\* the open may fail (nothing changes), or the dump after the open truncated the file.
MakedirsOutcomes(t) == {"ok"} \cup (IF <<t, "makedirs">> \in faults THEN {"fails"} ELSE {})
WriteOutcomesOf(t) ==
    {"ok"} \cup (IF <<t, "open">> \in faults THEN {"open_fails"} ELSE {})
           \cup (IF <<t, "dump">> \in faults THEN {"dump_fails"} ELSE {})
WritePairs(t) == WriteOutcomesOf(t) \X WriteOutcomesOf(t)

\* ---------------------------------------------- get_response: the fence
\* A string is the sequence of its characters.  Each character is named by a string: the newline, the backtick, and the
\* characters "[", "]" and "j" standing for themselves.
NL == "newline"
Backtick == "backtick"
Fence == <<Backtick, Backtick, Backtick>>

\* str.startswith / str.endswith
startswith(str, prefix) ==
    Len(str) >= Len(prefix) /\ SubSeq(str, 1, Len(prefix)) = prefix
endswith(str, suffix) ==
    Len(str) >= Len(suffix) /\ SubSeq(str, Len(str) - Len(suffix) + 1, Len(str)) = suffix

\* str.split on the newline: the pieces between the newlines, at least one.
RECURSIVE split(_)
split(str) ==
    LET nl == {k \in 1 .. Len(str) : str[k] = NL}
    IN IF nl = {} THEN <<str>>
       ELSE LET k == CHOOSE k \in nl : \A m \in nl : k <= m
            IN <<SubSeq(str, 1, k - 1)>> \o split(SubSeq(str, k + 1, Len(str)))

\* str.join with the newline
RECURSIVE join(_)
join(pieces) ==
    IF pieces = <<>> THEN <<>>
    ELSE IF Len(pieces) = 1 THEN pieces[1]
    ELSE pieces[1] \o <<NL>> \o join(Tail(pieces))

\* The slice [1:-1] of a list.
\* Faulty variant: the slice [1:], which keeps the last line.
slice_from_1(pieces) == SubSeq(pieces, 2, Len(pieces))
slice_1_to_last(pieces) == SubSeq(pieces, 2, Len(pieces) - 1)

\* get_response between the reply and from_json: a response that starts and
\* ends with three backticks loses its first and its last line.
unfence(str) ==
    IF startswith(str, Fence) /\ endswith(str, Fence)
    THEN join(slice_1_to_last(split(str)))
    ELSE str

\* Lines a response is made of in the texts explored: empty, the bare fence,
\* a fence with a language tag, pieces of JSON, JSON with the closing fence
\* on the same line, and two backticks only.
ResponseLines ==
    {<<>>, Fence, Fence \o <<"j">>, <<"[">>, <<"]">>, <<"[", "]">>, <<"[", "]">> \o Fence, <<Backtick, Backtick>>}

\* ------------------------------------------------------- get_file_tokens
\* read_source_files(repo_path).source_files: the candidate files in
\* traversal order.
source_files == [k \in 1 .. NumFiles |-> k]

\* The two "continue" tests of get_file_tokens' loop, negated: the file is
\* entered in the dict.
\* Faulty variant: a file of exactly token_limit tokens is dropped too.
keeps_below_limit(num_tokens, limit) ==
    ~(num_tokens = 0) /\ ~(limit # -1 /\ num_tokens >= limit)
keeps(num_tokens, limit) ==
    ~(num_tokens = 0) /\ ~(limit # -1 /\ num_tokens > limit)

\* get_file_tokens: the loop over the candidates.  Reading and tokenizing
\* sit in no try block, so the first failing candidate ends the call with
\* its exception; otherwise the dict comes back, as the sequence of its
\* <<file, count>> items in insertion order.
\* Faulty variant: each kept file goes to the front of the dict's items.
RECURSIVE get_file_tokens_reversing(_, _, _, _)
get_file_tokens_reversing(src, cnt, limit, bad) ==
    IF src = <<>> THEN Returns(<<>>)
    ELSE IF Head(src) \in bad THEN Raises("UnicodeDecodeError")
    ELSE LET rest == get_file_tokens_reversing(Tail(src), cnt, limit, bad)
         IN IF ~rest.ok THEN rest
            ELSE IF keeps(cnt[Head(src)], limit)
            THEN Returns(rest.value \o <<<<Head(src), cnt[Head(src)]>>>>)
            ELSE rest
RECURSIVE get_file_tokens(_, _, _, _)
get_file_tokens(src, cnt, limit, bad) ==
    IF src = <<>> THEN Returns(<<>>)
    ELSE IF Head(src) \in bad THEN Raises("UnicodeDecodeError")
    ELSE LET rest == get_file_tokens(Tail(src), cnt, limit, bad)
         IN IF ~rest.ok THEN rest
            ELSE IF keeps(cnt[Head(src)], limit)
            THEN Returns(<<<<Head(src), cnt[Head(src)]>>>> \o rest.value)
            ELSE rest

\* ------------------------------------------------------------ read_output
\* The artifact paths, source file by source file, and the same backwards:
\* the two orders in which os.walk is taken to list the output tree.
RECURSIVE TreeOrderFrom(_)
TreeOrderFrom(t) ==
    IF t > NumFiles THEN <<>> ELSE <<<<t, "function">>, <<t, "file">>>> \o TreeOrderFrom(t + 1)
TreeOrder == TreeOrderFrom(1)
Reversed(s) == [k \in 1 .. Len(s) |-> s[Len(s) + 1 - k]]

\* ExtendedFunctionDescription / ExtendedFileDescription .model_validate of
\* one stored object: every field without a default has to be there; the
\* model has all declared fields.
model_validate(rec, required, optional) ==
    IF required \cup Provenance \subseteq rec.keys
    THEN Returns([name |-> rec.name,
                  keys |-> (rec.keys \cap (required \cup Provenance)) \cup optional,
                  filepath |-> rec.filepath])
    ELSE Raises("ValidationError")

\* The body of read_output's try block for one file of the tree: what it
\* adds to the two lists, or the exception that the except clauses catch.
\* Faulty variant: a .function.json adds its elements one by one, up to the
\* first that fails validation.
read_one_by_element(p, content) ==
    IF content.state # "complete" THEN Raises("JSONDecodeError")
    ELSE IF p[2] = "file"
    THEN LET v == model_validate(content.records[1], FileRequired, {"file_name"})
         IN IF v.ok THEN Returns([file |-> <<v.value>>, function |-> <<>>]) ELSE v
    ELSE LET vs == [k \in 1 .. Len(content.records) |->
                       model_validate(content.records[k], FunctionRequired, FunctionOptional)]
             good == {k \in 1 .. Len(vs) : \A m \in 1 .. k : vs[m].ok}
         IN Returns([file |-> <<>>, function |-> [k \in 1 .. Cardinality(good) |-> vs[k].value]])
read_one(p, content) ==
    IF content.state # "complete" THEN Raises("JSONDecodeError")
    ELSE IF p[2] = "file"
    THEN LET v == model_validate(content.records[1], FileRequired, {"file_name"})
         IN IF v.ok THEN Returns([file |-> <<v.value>>, function |-> <<>>]) ELSE v
    ELSE LET vs == [k \in 1 .. Len(content.records) |->
                       model_validate(content.records[k], FunctionRequired, FunctionOptional)]
         IN IF \A k \in 1 .. Len(vs) : vs[k].ok
            THEN Returns([file |-> <<>>, function |-> [k \in 1 .. Len(vs) |-> vs[k].value]])
            ELSE Raises("ValidationError")

\* list.extend
\* Faulty variant: records already in the list are not added again.
extend_new_only(list, more) == list \o SelectSeq(more, LAMBDA r : \A k \in 1 .. Len(list) : list[k] # r)
extend(list, more) == list \o more

\* read_output over the files of the tree in the order listed.
\* Faulty variant: the first file that fails ends the walk.
RECURSIVE read_output_aborting(_, _, _)
read_output_aborting(listed, tree, results) ==
    IF listed = <<>> THEN results
    ELSE LET r == read_one(Head(listed), tree[Head(listed)])
         IN IF ~r.ok THEN results
            ELSE read_output_aborting(Tail(listed), tree,
                    [file_descriptions |-> extend(results.file_descriptions, r.value.file),
                     function_descriptions |-> extend(results.function_descriptions, r.value.function)])
RECURSIVE read_output(_, _, _)
read_output(listed, tree, results) ==
    IF listed = <<>> THEN results
    ELSE LET r == read_one(Head(listed), tree[Head(listed)])
         IN IF ~r.ok THEN read_output(Tail(listed), tree, results)
            ELSE read_output(Tail(listed), tree,
                    [file_descriptions |-> extend(results.file_descriptions, r.value.file),
                     function_descriptions |-> extend(results.function_descriptions, r.value.function)])

\* Artifacts an output tree may hold at the path of work item t: none, one
\* that is no JSON, and complete ones about source file f, with every record
\* as the pipeline dumps it or with one record that lacks the provenance
\* fields.
StoredFunction(e, f) == Dump(e, f, FunctionRequired, FunctionOptional)
StoredFile(f) == Dump(FileObjOk, f, FileRequired, {"file_name"})
WithoutProvenance(rec) == [rec EXCEPT !.keys = @ \ Provenance]
ArtifactsAt(p) ==
    LET about(f) ==
            IF p[2] = "function"
            THEN <<Complete(<<StoredFunction(ElemF, f), StoredFunction(ElemG, f)>>),
                   Complete(<<StoredFunction(ElemF, f), WithoutProvenance(StoredFunction(ElemG, f))>>)>>
            ELSE <<Complete(<<StoredFile(f)>>), Complete(<<WithoutProvenance(StoredFile(f))>>)>>
    IN <<Absent, Partial>> \o about(p[1]) \o about(1)

\* ---------------------------------------------------------------- actions
\* process_repo up to "await asyncio.gather(*tasks)": get_file_tokens picks
\* the work items (an exception of it leaves process_repo at once), the
\* semaphore is created and one process_file coroutine is appended per
\* dispatched work item.
process_repo ==
    /\ repoPc = "start"
    /\ LET ft == get_file_tokens(source_files, tokens, token_limit, unreadable)
       IN IF ft.ok
          THEN LET n == Dispatched(Len(ft.value), max_files)
               IN /\ file_tokens' = ft.value
                  /\ tasks' = [k \in 1 .. n |-> ft.value[k][1]]
                  /\ repoPc' = "gather"
                  /\ semValue' = Semaphore(concurrency)
                  /\ pc' = [t \in Files |-> IF \E k \in 1 .. n : ft.value[k][1] = t
                                            THEN "created" ELSE "undispatched"]
          ELSE /\ repoPc' = "raised"
               /\ UNCHANGED <<plan, semValue, pc>>
    /\ UNCHANGED <<env, runs, elsewhere, closed, step, i, result, waiters, held, inflight, called, disk, log, failures, tally>>

\* The work items whose coroutine precedes that of t in the tasks list.
EarlierTasks(t) ==
    {tasks[k] : k \in {k \in 1 .. Len(tasks) : \E m \in 1 .. Len(tasks) : k < m /\ tasks[m] = t}}

\* gather schedules the first step of every task before process_repo
\* suspends, and the loop runs all of them before it polls for I/O or timers.
AllStarted == \A t \in Files : pc[t] # "created"

\* First step of a process_file task: "async with semaphore" either takes a
\* free slot and runs on, or queues.  Tasks start in the order gather made them.
TaskStart(t) ==
    /\ repoPc = "gather" /\ ~closed
    /\ pc[t] = "created"
    /\ \A u \in EarlierTasks(t) : pc[u] # "created"
    /\ IF locked(semValue, waiters)
       THEN /\ pc' = [pc EXCEPT ![t] = "waiting"]
            /\ waiters' = Append(waiters, t)
            /\ UNCHANGED <<step, i, result, semValue, held, inflight, called, disk, log, failures, tally>>
       ELSE \E mk \in MakedirsOutcomes(t) : \E w \in WritePairs(t) :
                Becomes(Enter([Now EXCEPT !.semValue = @ - 1], t, mk, w))
    /\ UNCHANGED <<env, runs, elsewhere, plan, repoPc, closed>>

\* A woken waiter resumes inside acquire(): it leaves the queue, passes a
\* spare slot on, and enters the block.
TaskResume(t) ==
    /\ ~closed /\ AllStarted
    /\ pc[t] = "granted"
    /\ LET ws == SelectSeq(waiters, LAMBDA u : u # t)
           r == IF semValue > 0 THEN wake_up_next(semValue, ws, pc)
                ELSE [value |-> semValue, pc |-> pc]
           S == [Now EXCEPT !.waiters = ws, !.semValue = r.value, !.pc = r.pc]
       IN \E mk \in MakedirsOutcomes(t) : \E w \in WritePairs(t) :
              Becomes(Enter(S, t, mk, w))
    /\ UNCHANGED <<env, runs, elsewhere, plan, repoPc, closed>>

\* The endpoint answers the outstanding request of task t: get_response
\* returns the parsed value, or handles the attempt's exception.
ModelReply(t) ==
    /\ ~closed /\ AllStarted
    /\ pc[t] = "call"
    /\ LET k == step[t]
           kind == process_file_order[k]
       IN /\ <<t, kind>> \in inflight
          /\ \E r \in replies[<<t, kind>>] : \E w \in WritePairs(t) :
              LET S == [Now EXCEPT !.inflight = @ \ {<<t, kind>>}]
                  S0 == Printed(S, t, Event("attempt_failed", kind, i[<<t, kind>>] + 1))
                  S1 == Failed(S0, <<t, kind>>, r.exc, FALSE, 0)
              IN IF r.ok
                 THEN Becomes(AfterStep(HandleResult([S EXCEPT !.result[<<t, kind>>] = r.value],
                                                    t, kind, r.value, w), t, k, FALSE, w))
                 ELSE IF retry_after_failure(i[<<t, kind>>], retries)
                 THEN Becomes([Failed(S0, <<t, kind>>, r.exc, TRUE, sleep_delay(i[<<t, kind>>], delay))
                                  EXCEPT !.pc[t] = "sleep"])
                 ELSE IF except_Exception(r.exc)
                 THEN Becomes(AfterStep(Printed(S1, t, Event(ErrorEvent(kind), r.exc, 0)),
                                        t, k, TRUE, w))
                 ELSE Becomes(End(S1, t, "raised"))
    /\ UNCHANGED <<env, runs, elsewhere, plan, repoPc, closed>>

\* asyncio.sleep(delay) is over: the next iteration of get_response's loop
\* sends the request again.
SleepEnds(t) ==
    /\ ~closed /\ AllStarted
    /\ pc[t] = "sleep"
    /\ pc' = [pc EXCEPT ![t] = "call"]
    /\ i' = [i EXCEPT ![<<t, process_file_order[step[t]]>>] = @ + 1]
    /\ inflight' = inflight \cup {<<t, process_file_order[step[t]]>>}
    /\ UNCHANGED <<env, runs, elsewhere, plan, repoPc, closed, step, result, semValue, waiters, held, called, disk, log, failures, tally>>

\* asyncio.gather without return_exceptions: the first exception of a task
\* is raised in process_repo at once; the other tasks are left running.
GatherRaises ==
    /\ repoPc = "gather"
    /\ \E t \in Files : pc[t] = "raised"
    /\ AllStarted
    /\ repoPc' = "raised"
    /\ UNCHANGED <<env, runs, elsewhere, plan, closed, pc, step, i, result, semValue, waiters, held, inflight, called, disk, log, failures, tally>>

\* asyncio.gather: every task has returned.
GatherReturns ==
    /\ repoPc = "gather"
    /\ \A t \in Files : pc[t] \in {"done", "undispatched"}
    /\ repoPc' = "returned"
    /\ UNCHANGED <<env, runs, elsewhere, plan, closed, pc, step, i, result, semValue, waiters, held, inflight, called, disk, log, failures, tally>>

Unfinished == {"created", "waiting", "granted", "call", "sleep"}

\* asyncio.run(process_repo(...)) once process_repo has ended: every task
\* still pending is cancelled (CancelledError is no Exception, so no except
\* clause of the program stops it) and the loop is closed.
RunCloses ==
    /\ repoPc \in {"returned", "raised"}
    /\ ~closed
    /\ closed' = TRUE
    /\ pc' = [t \in Files |-> IF pc[t] \in Unfinished THEN "cancelled" ELSE pc[t]]
    /\ waiters' = <<>>
    /\ held' = {}
    /\ inflight' = {}
    /\ semValue' = semValue + Cardinality({t \in Files : pc[t] \in {"granted", "call", "sleep"}})
    /\ UNCHANGED <<env, runs, elsewhere, plan, repoPc, step, i, result, called, disk, log, failures, tally>>

\* main is run again over the same repository and output tree: only the
\* files on disk outlive the process.
Rerun ==
    /\ closed
    /\ run < MaxRuns
    /\ run' = run + 1
    /\ prev' = [pc |-> pc, log |-> log, disk |-> disk]
    /\ repoPc' = "start"
    /\ closed' = FALSE
    /\ pc' = [t \in Files |-> "undispatched"]
    /\ step' = [t \in Files |-> 0]
    /\ i' = [p \in Paths |-> 0]
    /\ result' = [p \in Paths |-> Unset]
    /\ semValue' = 0
    /\ called' = [t \in Files |-> {}]
    /\ log' = [t \in Files |-> {}]
    /\ failures' = [p \in Paths |-> <<>>]
    /\ tally' = NoTally
    /\ file_tokens' = <<>>
    /\ tasks' = <<>>
    /\ UNCHANGED <<env, elsewhere, waiters, held, inflight, disk>>

\* get_response, from the message content of an attempt to the call of
\* from_json.
Unfence ==
    /\ ~payload.parsed
    /\ payload' = [parsed |-> TRUE, text |-> unfence(response)]
    /\ UNCHANGED <<env, runs, plan, response, corpus, repoPc, closed, pc, step, i, result,
                   semValue, waiters, held, inflight, called, disk, log, failures, tally>>

\* read_output(output_dir), the whole call.
ReadOutput ==
    /\ ~corpus.returned
    /\ LET listed == SelectSeq(walk, LAMBDA p : disk[p] # Absent)
           r == read_output(listed, disk, [file_descriptions |-> <<>>, function_descriptions |-> <<>>])
       IN corpus' = [returned |-> TRUE, file_descriptions |-> r.file_descriptions,
                     function_descriptions |-> r.function_descriptions]
    /\ UNCHANGED <<env, runs, plan, response, payload, repoPc, closed, pc, step, i, result,
                   semValue, waiters, held, inflight, called, disk, log, failures, tally>>

Next ==
    \/ process_repo
    \/ \E t \in Files : TaskStart(t)
    \/ \E t \in Files : TaskResume(t)
    \/ \E t \in Files : ModelReply(t)
    \/ \E t \in Files : SleepEnds(t)
    \/ GatherRaises
    \/ GatherReturns
    \/ RunCloses

\* ------------------------------------------------------------------ Init
InitRunOver(tree) ==
    /\ repoPc = "start"
    /\ closed = FALSE
    /\ pc = [t \in Files |-> "undispatched"]
    /\ step = [t \in Files |-> 0]
    /\ i = [p \in Paths |-> 0]
    /\ result = [p \in Paths |-> Unset]
    /\ semValue = 0
    /\ waiters = <<>>
    /\ held = {}
    /\ inflight = {}
    /\ called = [t \in Files |-> {}]
    /\ disk = tree
    /\ log = [t \in Files |-> {}]
    /\ failures = [p \in Paths |-> <<>>]
    /\ tally = NoTally
    /\ file_tokens = <<>>
    /\ tasks = <<>>
    /\ run = 1
    /\ prev = [pc |-> pc, log |-> log, disk |-> disk]
    /\ payload = [parsed |-> FALSE, text |-> <<>>]
    /\ corpus = [returned |-> FALSE, file_descriptions |-> <<>>, function_descriptions |-> <<>>]

\* A first run: the output tree is empty.
InitRun == InitRunOver([p \in Paths |-> Absent])

\* A repository all of whose candidate files are readable, non-empty and
\* within the token limit.
EveryFileKept ==
    /\ tokens = [f \in Files |-> 1]
    /\ token_limit = -1
    /\ unreadable = {}

\* An endpoint that may fail any request or answer it with one good value.
PlainReplies ==
    [p \in Paths |->
        IF p[2] = "function"
        THEN {Raises("APIError"), Returns(Array(<<ElemF>>))}
        ELSE {Raises("APIError"), Returns(Object(FileObjOk))}]

\* The pipeline as main.py runs it: default retries, no max_files; makedirs
\* may fail for any work item, the artifact writes of the first may fail.
Init ==
    /\ concurrency \in 1 .. MaxConcurrency
    /\ retries = DEFAULT_RETRIES
    /\ delay = DEFAULT_DELAY
    /\ max_files = -1
    /\ replies = PlainReplies
    /\ faults = (Files \X {"makedirs"}) \cup ({1} \X {"open", "dump"})
    /\ EveryFileKept
    /\ response = <<>>
    /\ walk = TreeOrder
    /\ InitRun

Spec == Init /\ [][Next]_vars

\* The same pipeline under a fair event loop and an endpoint that settles
\* every request: a step that stays possible is eventually taken.
Fairness ==
    /\ WF_vars(process_repo)
    /\ \A t \in Files : /\ WF_vars(TaskStart(t))
                        /\ WF_vars(TaskResume(t))
                        /\ WF_vars(ModelReply(t))
                        /\ WF_vars(SleepEnds(t))
    /\ WF_vars(GatherRaises)
    /\ WF_vars(GatherReturns)
    /\ WF_vars(RunCloses)

SpecFair == Init /\ [][Next]_vars /\ Fairness

\* get_response under every retries argument, one slot.
InitRetry ==
    /\ concurrency = 1
    /\ retries \in -1 .. MaxRetries
    /\ delay = DEFAULT_DELAY
    /\ max_files = -1
    /\ replies = PlainReplies
    /\ faults = {<<1, "makedirs">>}
    /\ EveryFileKept
    /\ response = <<>>
    /\ walk = TreeOrder
    /\ InitRun

SpecRetry == InitRetry /\ [][Next]_vars

\* What an attempt can fail with: the request does not get through, the
\* endpoint answers with an error status, from_json rejects the text.
AttemptErrors == {"APIConnectionError", "APIStatusError", "ValueError"}

\* get_response with 1 .. MaxRetries attempts, one slot: the function-level
\* request of the first work item can fail in every way at every attempt,
\* every other request is answered.
InitFailures ==
    /\ concurrency = 1
    /\ retries \in 1 .. MaxRetries
    /\ delay = DEFAULT_DELAY
    /\ max_files = -1
    /\ replies = [p \in Paths |->
                    {r \in PlainReplies[p] : r.ok}
                    \cup (IF p = <<1, "function">> THEN {Raises(e) : e \in AttemptErrors} ELSE {})]
    /\ faults = {<<1, "makedirs">>}
    /\ EveryFileKept
    /\ response = <<>>
    /\ walk = TreeOrder
    /\ InitRun

SpecFailures == InitFailures /\ [][Next]_vars

\* The first work item's function-level answer is any array of up to
\* MaxElems elements (or no array at all), its file-level answer any object.
InitElems ==
    /\ concurrency = 1
    /\ retries = DEFAULT_RETRIES
    /\ delay = DEFAULT_DELAY
    /\ max_files = -1
    /\ replies = [p \in Paths |->
                    IF p = <<1, "function">>
                    THEN {Returns(Array(s)) : s \in SeqsUpTo(Elements, MaxElems)} \cup {Returns(Scalar)}
                    ELSE IF p = <<1, "file">>
                    THEN {Returns(Object(FileObjOk)), Returns(Object(FileObjBad)), Returns(Array(<<>>))}
                    ELSE PlainReplies[p]]
    /\ faults = {<<2, "makedirs">>}
    /\ EveryFileKept
    /\ response = <<>>
    /\ walk = TreeOrder
    /\ InitRun

SpecElems == InitElems /\ [][Next]_vars

\* process_repo up to its gather, over every repository of NumFiles
\* candidates: any token counts, any token_limit and max_files, any set of
\* unreadable candidates.  The tasks it creates are left unscheduled.
InitDispatch ==
    /\ concurrency = 1
    /\ retries = DEFAULT_RETRIES
    /\ delay = DEFAULT_DELAY
    /\ max_files \in -1 .. NumFiles + 1
    /\ replies = PlainReplies
    /\ faults = {}
    /\ tokens \in [Files -> 0 .. MaxTokens]
    /\ token_limit \in -1 .. MaxTokens
    /\ unreadable \in SUBSET Files
    /\ response = <<>>
    /\ walk = TreeOrder
    /\ InitRun

NextDispatch ==
    \/ process_repo
    \/ GatherReturns
    \/ RunCloses

SpecDispatch == InitDispatch /\ [][NextDispatch]_vars

\* Up to MaxRuns runs of main over one output tree, against an endpoint that
\* treats every request for the same prompt alike: it always answers it or
\* always fails it.
InitRerun ==
    /\ concurrency = 1
    /\ retries = DEFAULT_RETRIES
    /\ delay = DEFAULT_DELAY
    /\ max_files = -1
    /\ \E answered \in SUBSET Paths :
          replies = [p \in Paths |-> {r \in PlainReplies[p] : r.ok = (p \in answered)}]
    /\ faults = {<<NumFiles, "makedirs">>}
    /\ EveryFileKept
    /\ response = <<>>
    /\ walk = TreeOrder
    /\ InitRun

NextRerun == Next \/ Rerun

SpecRerun == InitRerun /\ [][NextRerun]_vars

\* get_response's handling of one response text, over every text of up to
\* MaxLines of the lines above.
InitFence ==
    /\ concurrency = 1
    /\ retries = DEFAULT_RETRIES
    /\ delay = DEFAULT_DELAY
    /\ max_files = -1
    /\ replies = PlainReplies
    /\ faults = {}
    /\ tokens = [f \in Files |-> 1]
    /\ token_limit = -1
    /\ unreadable = {}
    /\ response \in {join(ls) : ls \in SeqsUpTo(ResponseLines, MaxLines)}
    /\ walk = TreeOrder
    /\ InitRun

NextFence == Unfence

SpecFence == InitFence /\ [][NextFence]_vars

\* read_output over every output tree made of the artifacts above, listed
\* forwards or backwards.
InitRead ==
    /\ concurrency = 1
    /\ retries = DEFAULT_RETRIES
    /\ delay = DEFAULT_DELAY
    /\ max_files = -1
    /\ replies = PlainReplies
    /\ faults = {}
    /\ tokens = [f \in Files |-> 1]
    /\ token_limit = -1
    /\ unreadable = {}
    /\ response = <<>>
    /\ walk \in {TreeOrder, Reversed(TreeOrder)}
    /\ \E choice \in [Paths -> DOMAIN ArtifactsAt(<<1, "file">>)] :
          InitRunOver([p \in Paths |-> ArtifactsAt(p)[choice[p]]])

NextRead == ReadOutput

SpecRead == InitRead /\ [][NextRead]_vars

\* The tree an earlier run left when every request was answered with an
\* array of two valid elements and a valid object.
EarlierTree ==
    [p \in Paths |->
        IF p[2] = "function"
        THEN Complete(<<StoredFunction(ElemF, p[1]), StoredFunction(ElemG, p[1])>>)
        ELSE Complete(<<StoredFile(p[1])>>)]

\* One run over that tree.  Candidate files may have become empty and
\* max_files may cut the work list; any request may fail, the first
\* candidate's file-level answer may be an invalid object, and its output
\* directory may be impossible to create.
InitOver ==
    /\ concurrency \in 1 .. MaxConcurrency
    /\ retries = DEFAULT_RETRIES
    /\ delay = DEFAULT_DELAY
    /\ max_files \in {-1, 1}
    /\ replies = [p \in Paths |->
                    IF p = <<1, "file">>
                    THEN PlainReplies[p] \cup {Returns(Object(FileObjBad))}
                    ELSE PlainReplies[p]]
    /\ faults = {<<1, "makedirs">>}
    /\ tokens \in [Files -> 0 .. 1]
    /\ token_limit = -1
    /\ unreadable = {}
    /\ response = <<>>
    /\ walk = TreeOrder
    /\ InitRunOver(EarlierTree)

SpecOver == InitOver /\ [][Next]_vars

\* ================================================================ claims
SlotHolders == held \cup {t \in Files : pc[t] = "granted"}

Logged(t, ev, exc) == \E e \in log[t] : e.ev = ev /\ e.exc = exc

\* get_response for extraction kind of task t ended by raising to its caller.
GetResponseRaised(t, kind) == Logged(t, ErrorEvent(kind), "APIError")

\* get_response for extraction kind of task t ended by returning a value.
GetResponseReturned(t, kind) == result[<<t, kind>>] # Unset

\* Requests get_response sent for extraction kind of task t.
Sent(t, kind) == IF kind \in called[t] /\ retries > 0 THEN i[<<t, kind>>] + 1 ELSE 0

FailedAttempts(t, kind) == {e.n : e \in {x \in log[t] : x.ev = "attempt_failed" /\ x.exc = kind}}

\* C1: the number of process_file tasks holding an admission slot at the same
\* time never exceeds concurrency.
C1_SlotsNeverExceedLimit == Cardinality(SlotHolders) <= concurrency

C1_Witness ==
    /\ Cardinality(held) = concurrency
    /\ \E t \in Files : pc[t] = "waiting"
    /\ \E t \in held : pc[t] = "sleep"

\* C2: the model requests outstanding, summed over all tasks, are at most
\* concurrency, and one task never has more than one outstanding.
C2_OutstandingRequestsBounded ==
    /\ Cardinality(inflight) <= concurrency
    /\ \A t \in Files : Cardinality({k \in Kinds : <<t, k>> \in inflight}) <= 1

C2_Witness ==
    /\ Cardinality(inflight) = concurrency
    /\ \E t \in Files : <<t, "file">> \in inflight /\ (\E u \in Files : pc[u] = "waiting")

\* C3: a model extraction that fails on every attempt is caught inside its
\* task: the task does not raise, process_repo raises only when some task
\* raised, no sibling is cancelled unless process_repo raised, and when
\* process_repo returns every dispatched task has made both of its calls.
C3_ModelFailureStaysInTask ==
    /\ \A t \in Files : \A kind \in Kinds : GetResponseRaised(t, kind) => pc[t] # "raised"
    /\ (\A t \in Files : pc[t] = "raised" => log[t] = {}) 
    /\ ((\A t \in Files : pc[t] # "raised") => repoPc # "raised" /\ (\A u \in Files : pc[u] # "cancelled"))
    /\ (repoPc = "returned" => \A u \in Files : pc[u] = "done" /\ called[u] = Kinds)

C3_Witness ==
    \E t \in Files : \E u \in Files \ {t} :
        /\ GetResponseRaised(t, "function") /\ GetResponseRaised(t, "file")
        /\ pc[t] = "done"
        /\ Logged(u, "function_saved", "") /\ Logged(u, "file_saved", "")
        /\ disk[<<u, "function">>].state = "complete" /\ disk[<<u, "file">>].state = "complete"
        /\ repoPc = "returned"

IOFailed(t) == pc[t] = "raised" \/ (\E kind \in Kinds : Logged(t, ErrorEvent(kind), "OSError"))

\* C4: an IOFailure of one work item (makedirs, or opening or writing an
\* artifact) stays in its task: process_repo does not raise and no other
\* task is kept from running to completion.
C4_IOFailureStaysInTask ==
    (\E t \in Files : IOFailed(t)) =>
        /\ repoPc # "raised"
        /\ \A u \in Files : pc[u] # "cancelled"

\* C5: process_repo does not end (return or raise) while a task it
\* dispatched is unfinished.
C5_RepoEndsAfterAllTasks ==
    repoPc \in {"returned", "raised"} => \A t \in Files : pc[t] \notin Unfinished

\* C6: a get_response whose attempts all fail makes exactly retries attempts
\* and raises; one that fails on attempts 1..k and succeeds on attempt k+1
\* returns after exactly k+1 attempts, k < retries.
C6_RetryCount ==
    \A t \in Files : \A kind \in Kinds :
        /\ GetResponseRaised(t, kind) =>
              /\ Sent(t, kind) = retries
              /\ FailedAttempts(t, kind) = 1 .. retries
              /\ ~GetResponseReturned(t, kind)
        /\ (GetResponseReturned(t, kind) /\ Sent(t, kind) >= 1) =>
              /\ FailedAttempts(t, kind) = 1 .. (Sent(t, kind) - 1)
              /\ Sent(t, kind) <= retries
        /\ (pc[t] = "call" /\ process_file_order[step[t]] = kind) =>
              FailedAttempts(t, kind) = 1 .. (Sent(t, kind) - 1)

C6_Witness ==
    \E t \in Files :
        /\ retries = MaxRetries
        /\ GetResponseRaised(t, "function") /\ Sent(t, "function") = retries
        /\ GetResponseReturned(t, "file") /\ Sent(t, "file") = retries
        /\ pc[t] = "done"

\* C7 as stated: a function-level failure means the file-level call of the
\* same file is never made.
C7_FunctionFailureSkipsFileCall ==
    \A t \in Files : GetResponseRaised(t, "function") => "file" \notin called[t]

\* C7 amended: a function-level failure is caught in
\* process_function_description, leaves no .function.json, and the
\* file-level call of the same file is still made.
C7_FunctionFailureThenFileCall ==
    \A t \in Files :
        GetResponseRaised(t, "function") =>
            /\ "file" \in called[t]
            /\ disk[<<t, "function">>] = Absent
            /\ pc[t] \in {"call", "sleep"} => step[t] = 2

C7_Witness ==
    \E t \in Files :
        /\ GetResponseRaised(t, "function")
        /\ Logged(t, "file_saved", "")
        /\ disk[<<t, "file">>].state = "complete"

FunctionStepEnded(t) == \E e \in log[t] : e.ev \in {"function_saved", "function_error"}

\* C8 as stated: whenever the file-level call has begun, the task's
\* .function.json has been written in this run.
C8_FunctionArtifactBeforeFileCall ==
    \A t \in Files :
        "file" \in called[t] =>
            Logged(t, "function_saved", "") /\ disk[<<t, "function">>].state = "complete"

\* C8 amended: whenever the file-level call has begun, the function-level
\* step has ended (artifact written, or failure logged), a written artifact
\* is complete, and the two requests of a task are never outstanding together.
C8_FunctionStepBeforeFileCall ==
    \A t \in Files :
        /\ "file" \in called[t] =>
              /\ FunctionStepEnded(t)
              /\ <<t, "function">> \notin inflight
              /\ Logged(t, "function_saved", "") => disk[<<t, "function">>].state = "complete"
        /\ ~(<<t, "function">> \in inflight /\ <<t, "file">> \in inflight)

C8_Witness ==
    \E t \in Files :
        /\ <<t, "file">> \in inflight
        /\ Logged(t, "function_saved", "")
        /\ disk[<<t, "function">>].state = "complete"

\* C9: every model call, retry sleep and artifact write of a task happens
\* while the task is inside the semaphore block, holding one slot; a task
\* that has begun its extractions and is no longer inside has ended.
C9_SlotHeld ==
    /\ \A t \in Files : pc[t] \in {"call", "sleep"} => t \in held
    /\ \A p \in inflight : p[1] \in held
    /\ \A t \in Files : (called[t] # {} /\ t \notin held) => pc[t] \in {"done", "cancelled", "raised"}
    /\ repoPc # "start" => semValue + Cardinality(SlotHolders) = concurrency

C9_WorkUnderOneSlot ==
    /\ []C9_SlotHeld
    /\ [][\A p \in Paths : disk'[p] # disk[p] => p[1] \in held]_vars

C9_Witness ==
    \E t \in Files :
        /\ pc[t] = "sleep" /\ step[t] = 2 /\ t \in held
        /\ disk[<<t, "function">>].state = "complete"
        /\ semValue = 0

\* The elements of a response that carry every required field and repeat no
\* keyword process_function_description passes itself.
C10_Keeps(r) == FunctionRequired \subseteq r.keys /\ r.keys \cap (Provenance \cup {"file_name"}) = {}
C10_KeptIndices(elems) == {k \in 1 .. Len(elems) : C10_Keeps(elems[k])}
C10_Nth(idx, n) == CHOOSE k \in idx : Cardinality({m \in idx : m < k}) = n - 1

\* C10: from a function-level array, exactly the elements failing validation
\* are dropped: the artifact holds one record per valid element, in the
\* response's order, and the task goes on to the file-level extraction.
C10_InvalidElementsDropped ==
    \A t \in Files :
        (Logged(t, "function_saved", "") /\ result[<<t, "function">>].shape = "array") =>
            LET elems == result[<<t, "function">>].elems
                idx == C10_KeptIndices(elems)
                recs == disk[<<t, "function">>].records
            IN /\ disk[<<t, "function">>].state = "complete"
               /\ Len(recs) = Cardinality(idx)
               /\ \A n \in 1 .. Len(recs) :
                     /\ recs[n].name = elems[C10_Nth(idx, n)].name
                     /\ recs[n].filepath = t
                     /\ FunctionRequired \cup Provenance \subseteq recs[n].keys
               /\ "file" \in called[t]
               /\ (Len(elems) > Len(recs)) =
                     (\E e \in log[t] : e.ev = "function_validation_error" /\ e.n = Len(elems) - Len(recs))

C10_Witness ==
    \E t \in Files :
        /\ result[<<t, "function">>] = Array(<<ElemF, ElemNoReturn, ElemG>>)
        /\ disk[<<t, "function">>].state = "complete"
        /\ Len(disk[<<t, "function">>].records) = 2
        /\ disk[<<t, "function">>].records[1].name = "f"
        /\ disk[<<t, "function">>].records[2].name = "g"
        /\ <<t, "file">> \in inflight

\* The keys of the dict get_file_tokens returned.
C11_Keys == {file_tokens[k][1] : k \in 1 .. Len(file_tokens)}

\* C11: get_file_tokens returns exactly the candidates whose token count c
\* satisfies 0 < c and, when a limit L is given, c <= L, each mapped to its
\* count; a candidate of count 0 or of count above L is never in the result.
C11_TokenFilter ==
    (repoPc # "start" /\ unreadable = {}) =>
        /\ C11_Keys = {f \in Files : 0 < tokens[f] /\ (token_limit = -1 \/ tokens[f] <= token_limit)}
        /\ Cardinality(C11_Keys) = Len(file_tokens)
        /\ \A k \in 1 .. Len(file_tokens) : file_tokens[k][2] = tokens[file_tokens[k][1]]

C11_Witness ==
    /\ repoPc = "gather"
    /\ token_limit > 0
    /\ \E f, g \in Files :
          /\ tokens[f] > token_limit
          /\ tokens[g] = token_limit
          /\ file_tokens = <<<<g, token_limit>>>>

\* C12: a second run over the same work items that goes as the first did
\* (same responses, same outcome of every task) leaves the artifact tree as
\* the first left it: the same paths with the same content.  An artifact
\* written in a run holds what that run dumped and nothing of what the path
\* held before.
C12_RerunLeavesTreeUnchanged ==
    /\ (run > 1 /\ closed /\ pc = prev.pc /\ log = prev.log) => disk = prev.disk
    /\ \A t \in Files :
          /\ Logged(t, "function_saved", "") =>
                disk[<<t, "function">>] = Complete(validated_results(result[<<t, "function">>].elems, t))
          /\ Logged(t, "file_saved", "") =>
                disk[<<t, "file">>] = Complete(<<Dump(result[<<t, "file">>].elems[1], t, FileRequired, {"file_name"})>>)

C12_Witness ==
    /\ run = 2 /\ closed
    /\ pc = prev.pc /\ log = prev.log
    /\ \E t \in Files :
          /\ Logged(t, "function_saved", "") /\ Logged(t, "file_saved", "")
          /\ prev.disk[<<t, "function">>].state = "complete"
          /\ Len(prev.disk[<<t, "function">>].records) = 1
          /\ disk[<<t, "function">>] = prev.disk[<<t, "function">>]
    /\ \E t \in Files : disk[<<t, "function">>] = Absent

\* The lines of a response, found by the positions of its newlines.
C13_Newlines(str) == {k \in 1 .. Len(str) : str[k] = NL}
C13_FirstLine(str) ==
    IF C13_Newlines(str) = {} THEN str
    ELSE SubSeq(str, 1, (CHOOSE k \in C13_Newlines(str) : \A m \in C13_Newlines(str) : k <= m) - 1)
C13_LastLine(str) ==
    IF C13_Newlines(str) = {} THEN str
    ELSE SubSeq(str, (CHOOSE k \in C13_Newlines(str) : \A m \in C13_Newlines(str) : k >= m) + 1, Len(str))
C13_Between(str) ==
    IF Cardinality(C13_Newlines(str)) < 2 THEN <<>>
    ELSE SubSeq(str, (CHOOSE k \in C13_Newlines(str) : \A m \in C13_Newlines(str) : k <= m) + 1,
                     (CHOOSE k \in C13_Newlines(str) : \A m \in C13_Newlines(str) : k >= m) - 1)

\* An opening fence line is three backticks and an optional tag, a closing
\* fence line is three backticks and nothing else.
C13_OpeningFence(line) ==
    startswith(line, Fence) /\ \A k \in 4 .. Len(line) : line[k] # Backtick
C13_ClosingFence(line) == line = Fence

\* The JSON texts over the characters explored: nested arrays, with
\* newlines as white space.
C13_ValidJson(str) ==
    LET body == SelectSeq(str, LAMBDA c : c # NL)
        n == Len(body)
    IN /\ n > 0 /\ n % 2 = 0
       /\ \A k \in 1 .. n : body[k] = (IF 2 * k <= n THEN "[" ELSE "]")

\* C13: a response whose first line is an opening fence and whose last line
\* is a closing fence is parsed from the lines strictly between the two,
\* unchanged and in order; a response that is valid JSON is parsed from its
\* full text, unchanged.
C13_FenceStripped ==
    payload.parsed =>
        /\ (C13_OpeningFence(C13_FirstLine(response)) /\ C13_ClosingFence(C13_LastLine(response)))
              => payload.text = C13_Between(response)
        /\ C13_ValidJson(response) => payload.text = response

C13_Witness ==
    /\ payload.parsed
    /\ response = Fence \o <<"j", NL, "[", "]", NL>> \o Fence
    /\ payload.text = <<"[", "]">>

\* An artifact read_output can take in: JSON whose every record has the
\* fields its record type requires.
C14_Required(p) == (IF p[2] = "function" THEN FunctionRequired ELSE FileRequired) \cup Provenance
C14_Readable(p) ==
    /\ disk[p].state = "complete"
    /\ \A k \in 1 .. Len(disk[p].records) : C14_Required(p) \subseteq disk[p].records[k].keys
C14_Failing(p) == disk[p] # Absent /\ ~C14_Readable(p)
C14_Returned(kind) ==
    IF kind = "file" THEN corpus.file_descriptions ELSE corpus.function_descriptions
RECURSIVE C14_Stored(_, _)
C14_Stored(listed, kind) ==
    IF listed = <<>> THEN 0
    ELSE (IF Head(listed)[2] = kind /\ C14_Readable(Head(listed)) THEN Len(disk[Head(listed)].records) ELSE 0)
         + C14_Stored(Tail(listed), kind)

\* C14: read_output returns whatever the tree holds; an artifact that is no
\* JSON or fails validation adds nothing, and every other artifact, listed
\* before or after it, still adds all of its records.
C14_BadArtifactSkipped ==
    corpus.returned =>
        /\ \A p \in Paths : C14_Readable(p) =>
              \A k \in 1 .. Len(disk[p].records) :
                  \E n \in 1 .. Len(C14_Returned(p[2])) : C14_Returned(p[2])[n] = disk[p].records[k]
        /\ \A kind \in Kinds : Len(C14_Returned(kind)) = C14_Stored(walk, kind)

C14_Witness ==
    /\ corpus.returned
    /\ walk = TreeOrder
    /\ C14_Readable(<<1, "function">>)
    /\ disk[<<1, "file">>].state = "complete" /\ C14_Failing(<<1, "file">>)
    /\ disk[<<NumFiles, "function">>] = Partial
    /\ C14_Readable(<<NumFiles, "file">>)
    /\ corpus.file_descriptions = <<StoredFile(NumFiles)>>
    /\ corpus.function_descriptions = disk[<<1, "function">>].records

\* The records of the readable artifacts of p's kind listed before p.
C15_Before(p) ==
    C14_Stored(SubSeq(walk, 1, (CHOOSE k \in 1 .. Len(walk) : walk[k] = p) - 1), p[2])

\* C15: read_output returns exactly the stored records: the one record of
\* every .file.json and the records of every .function.json in their stored
\* order, artifact after artifact as listed, each with the fields it was
\* written with, and a record stored twice is returned twice.
C15_ReadReturnsWhatWasWritten ==
    corpus.returned =>
        /\ \A p \in Paths : C14_Readable(p) =>
              \A k \in 1 .. Len(disk[p].records) :
                  /\ C15_Before(p) + k <= Len(C14_Returned(p[2]))
                  /\ C14_Returned(p[2])[C15_Before(p) + k] = disk[p].records[k]
        /\ \A kind \in Kinds : Len(C14_Returned(kind)) = C14_Stored(walk, kind)

C15_Witness ==
    /\ corpus.returned
    /\ \A p \in Paths : C14_Readable(p)
    /\ disk[<<1, "file">>] = Complete(<<StoredFile(1)>>)
    /\ disk[<<NumFiles, "file">>] = Complete(<<StoredFile(1)>>)
    /\ corpus.file_descriptions[1] = StoredFile(1)
    /\ corpus.file_descriptions[NumFiles] = StoredFile(1)
    /\ corpus.function_descriptions[1].name = "f"
    /\ corpus.function_descriptions[2].name = "g"

\* C16: with max_files = M, process_repo creates tasks for exactly the first
\* min(M, n) of the n work items, in their order, and for no other item
\* (none when M = 0); without max_files, for every work item.
C16_MaxFilesCap ==
    repoPc \in {"gather", "returned"} =>
        LET n == Len(file_tokens)
            m == IF max_files = -1 \/ max_files > n THEN n ELSE max_files
        IN /\ tasks = [k \in 1 .. m |-> file_tokens[k][1]]
           /\ \A t \in Files : (pc[t] # "undispatched") = (\E k \in 1 .. m : file_tokens[k][1] = t)

C16_Witness ==
    /\ repoPc = "gather"
    /\ max_files = 1
    /\ Len(file_tokens) = NumFiles
    /\ tasks = <<1>>
    /\ pc[1] = "created"
    /\ \A t \in Files \ {1} : pc[t] = "undispatched"

\* C17: when a candidate file cannot be read or tokenized, get_file_tokens
\* leaves that one file out and still returns every other candidate that
\* passes the filter.
C17_UnreadableFileSkipped ==
    (repoPc # "start" /\ unreadable # {}) =>
        C11_Keys = {f \in Files \ unreadable :
                      0 < tokens[f] /\ (token_limit = -1 \/ tokens[f] <= token_limit)}

\* C18: every dispatched task eventually finishes (returns or fails), having
\* held a slot, and process_repo eventually ends; a task that holds a slot
\* waits for the endpoint or its retry timer only, never for another task.
C18_EveryTaskFinishes ==
    /\ \A t \in Files : [](pc[t] = "created" => <>(pc[t] \in {"done", "raised"}))
    /\ <>(repoPc \in {"returned", "raised"})
    /\ [](\A t \in held : pc[t] \in {"call", "sleep"})

\* Tasks that have not been given a slot yet.
C19_NotAdmitted == {t \in Files : pc[t] \in {"created", "waiting"}}

C20_FixedDelayRetry ==
    \A t \in Files : \A kind \in Kinds :
        LET F == failures[<<t, kind>>]
        IN /\ Len(F) <= retries
           /\ FailedAttempts(t, kind) = 1 .. Len(F)
           /\ \A k \in 1 .. Len(F) :
                 IF k < retries THEN F[k].slept /\ F[k].delay = delay ELSE ~F[k].slept
           /\ Len(F) = retries => Logged(t, ErrorEvent(kind), F[retries].exc)
           /\ (kind \in called[t] /\ Len(F) < retries /\ pc[t] # "cancelled" /\ pc[t] # "sleep")
                 => (i[<<t, kind>>] = Len(F)
                     /\ (<<t, kind>> \in inflight \/ GetResponseReturned(t, kind)))
           /\ (pc[t] = "sleep" /\ process_file_order[step[t]] = kind) => i[<<t, kind>>] = Len(F) - 1

C20_Witness ==
    /\ retries = MaxRetries
    /\ Len(failures[<<1, "function">>]) = retries
    /\ failures[<<1, "function">>][1] = [exc |-> "APIConnectionError", slept |-> TRUE, delay |-> delay]
    /\ failures[<<1, "function">>][2] = [exc |-> "ValueError", slept |-> TRUE, delay |-> delay]
    /\ failures[<<1, "function">>][retries] = [exc |-> "APIStatusError", slept |-> FALSE, delay |-> 0]
    /\ Logged(1, "function_error", "APIStatusError")
    /\ <<1, "file">> \in inflight

\* C21: once get_response has returned a value for an extraction of a work
\* item, that extraction makes no further request in the run, whether the
\* value validates or not: its call was begun once, nothing of it is
\* outstanding, and its attempt counter and its value stay as they are.
C21_NoCallAfterReturn ==
    /\ [](\A p \in Paths : GetResponseReturned(p[1], p[2]) =>
              /\ p \notin inflight
              /\ tally.starts[p] = 1
              /\ ~(pc[p[1]] = "sleep" /\ process_file_order[step[p[1]]] = p[2]))
    /\ [][\A p \in Paths : GetResponseReturned(p[1], p[2]) =>
              (i'[p] = i[p] /\ result'[p] = result[p] /\ tally'.starts[p] = tally.starts[p])]_vars

C21_Witness ==
    /\ result[<<1, "function">>] = Array(<<ElemNoReturn>>)
    /\ Logged(1, "function_validation_error", "ValidationError")
    /\ result[<<1, "file">>] = Object(FileObjBad)
    /\ Logged(1, "file_validation_error", "ValidationError")
    /\ pc[1] = "done"
    /\ i[<<1, "function">>] = 0 /\ i[<<1, "file">>] = 0

\* C22: whenever the function-level get_response of a work item returned an
\* array, the run has opened that item's .function.json exactly once and the
\* artifact holds the list of the records that passed validation, in the
\* array's order: the empty list when the array was empty or every element
\* was dropped.  (The filesystem is one on which the write succeeds.)
C22_OneFunctionArtifactPerArray ==
    \A t \in Files :
        (GetResponseReturned(t, "function") /\ result[<<t, "function">>].shape = "array") =>
            /\ tally.opens[artifact_path(t, "function")] = 1
            /\ disk[<<t, "function">>] = Complete(validated_results(result[<<t, "function">>].elems, t))
            /\ Logged(t, "function_saved", "")

\* An array of two elements, both dropped by validation: the artifact holds
\* the empty list.
C22_Witness ==
    /\ result[<<1, "function">>] = Array(<<ElemNoReturn, ElemNoReturn>>)
    /\ Logged(1, "function_validation_error", "ValidationError")
    /\ disk[<<1, "function">>] = Complete(<<>>)
    /\ tally.opens[artifact_path(1, "function")] = 1

\* C23: in a run over an empty output tree a work item's .file.json is opened
\* at most once, and a .file.json exists only where the file-level
\* get_response returned an object that validated, holding that one record;
\* where the call failed or the value did not validate there is no file at
\* the path, in particular none that is empty or half written.
C23_FileArtifactOnlyWhenValid ==
    \A t \in Files :
        /\ tally.opens[artifact_path(t, "file")] <= 1
        /\ disk[<<t, "file">>] # Absent =>
              /\ GetResponseReturned(t, "file")
              /\ ValidFileObj(result[<<t, "file">>])
              /\ disk[<<t, "file">>] =
                     Complete(<<Dump(result[<<t, "file">>].elems[1], t, FileRequired, {"file_name"})>>)

\* What this run's extraction kind of work item t dumps from the value its
\* get_response returned.
C24_Produced(t, kind) ==
    IF kind = "function"
    THEN Complete(validated_results(result[<<t, "function">>].elems, t))
    ELSE Complete(<<Dump(result[<<t, "file">>].elems[1], t, FileRequired, {"file_name"})>>)

\* C24: when a run over the tree of an earlier run has ended, every artifact
\* present at the path of a work item whose task ran to its end was saved by
\* this run and holds what this run produced; where this run's extraction
\* failed, nothing of the earlier run is left at the path.
C24_LatestRunWins ==
    closed =>
        \A p \in Paths :
            (pc[p[1]] = "done" /\ disk[p] # Absent) =>
                /\ Logged(p[1], SavedEvent(p[2]), "")
                /\ disk[p] = C24_Produced(p[1], p[2])

\* The work items process_repo made a task for.
C25_Dispatched == {tasks[k] : k \in 1 .. Len(tasks)}

\* C25: in a run over the tree of an earlier run no file of the tree ever
\* disappears, no step changes or opens a path other than the two artifact
\* paths of a dispatched work item, and the artifacts of candidates that are
\* not dispatched (filtered out as empty, or cut off by max_files) stay
\* exactly as the earlier run left them.
C25_NoDeletionNoStrayWrite ==
    /\ [](\A p \in Paths : prev.disk[p] # Absent => disk[p] # Absent)
    /\ [](\A p \in Paths : p[1] \notin C25_Dispatched =>
              /\ disk[p] = prev.disk[p]
              /\ tally.opens[artifact_path(p[1], p[2])] = 0)
    /\ [][\A p \in Paths :
              (disk'[p] # disk[p] \/ tally'.opens[artifact_path(p[1], p[2])] # tally.opens[artifact_path(p[1], p[2])])
                  => p[1] \in C25_Dispatched]_vars

\* max_files = 1 cut the second candidate off: the run rewrote the first
\* one's function artifact and the second one's artifacts are the earlier
\* run's.
C25_Witness ==
    /\ closed
    /\ max_files = 1 /\ tokens[1] = 1 /\ tokens[2] = 1
    /\ pc[1] = "done" /\ pc[2] = "undispatched"
    /\ disk[<<1, "function">>] = Complete(<<StoredFunction(ElemF, 1)>>)
    /\ disk[<<1, "function">>] # prev.disk[<<1, "function">>]
    /\ disk[<<2, "function">>] = EarlierTree[<<2, "function">>]
    /\ disk[<<2, "file">>] = EarlierTree[<<2, "file">>]

\* C26: different (work item, kind) pairs have different artifact paths, in
\* particular the two artifacts of one work item, and no artifact path is
\* opened for writing more than once in a run, so no two tasks write the
\* same file.
C26_DistinctArtifactPaths ==
    /\ \A p, q \in Paths : p # q => artifact_path(p[1], p[2]) # artifact_path(q[1], q[2])
    /\ \A x \in ArtifactPaths : tally.opens[x] <= 1

\* Two tasks hold a slot at the same time and each has written its function
\* artifact.
C26_Witness ==
    /\ {1, 2} \subseteq held
    /\ pc[1] = "call" /\ pc[2] = "call"
    /\ tally.opens[artifact_path(1, "function")] = 1
    /\ tally.opens[artifact_path(2, "function")] = 1

C29_Ended == {"done", "raised", "cancelled"}

\* C29: once the semaphore exists, its free slots plus the tasks holding one
\* are always concurrency; a task that has ended, by returning, by raising
\* out of process_file or by being cancelled, holds none; and when every
\* task has ended all concurrency slots are free.
C29_NoSlotLeaked ==
    repoPc # "start" =>
        /\ semValue + Cardinality(SlotHolders) = concurrency
        /\ \A t \in Files : pc[t] \in C29_Ended => t \notin SlotHolders
        /\ (\A t \in Files : pc[t] \in C29_Ended) => semValue = concurrency

\* A task left process_file with the exception of os.makedirs, the other
\* tasks returned, and every slot is free.
C29_Witness ==
    /\ pc[1] = "raised"
    /\ \A t \in Files \ {1} : pc[t] = "done"
    /\ tally.acquires[1] = 1
    /\ semValue = concurrency

\* C27: every dispatched work item has exactly one task; a task acquires a
\* slot at most once, begins each of its two extractions at most once, has
\* begun the function-level extraction exactly once when it has ended, and
\* sends at most 2 * retries requests (for retries >= 0).
C27_ConsumedExactlyOnce ==
    /\ \A k, m \in 1 .. Len(tasks) : k # m => tasks[k] # tasks[m]
    /\ \A t \in Files :
          /\ tally.acquires[t] <= 1
          /\ tally.starts[<<t, "function">>] <= 1
          /\ tally.starts[<<t, "file">>] <= 1
          /\ pc[t] \in C29_Ended => tally.starts[<<t, "function">>] = 1
          /\ retries >= 0 => Sent(t, "function") + Sent(t, "file") <= 2 * retries

\* Where x stands in the sequence seq.
C28_Index(seq, x) == CHOOSE k \in 1 .. Len(seq) : seq[k] = x

\* C28: any two files of the dict get_file_tokens returned stand in it in the
\* order they have among the candidates, and the k-th task process_repo
\* made is for the k-th file of the dict.
C28_DispatchInTraversalOrder ==
    /\ \A k, m \in 1 .. Len(file_tokens) :
          k < m => C28_Index(source_files, file_tokens[k][1]) < C28_Index(source_files, file_tokens[m][1])
    /\ Len(tasks) <= Len(file_tokens)
    /\ \A k \in 1 .. Len(tasks) : tasks[k] = file_tokens[k][1]

\* The task dispatched second has returned while the one dispatched first
\* still waits for the answer to its first request.
C28_Witness ==
    /\ tasks = <<1, 2>>
    /\ pc[2] = "done"
    /\ pc[1] = "call" /\ step[1] = 1

\* The values the endpoint can answer a request of extraction p with.
C30_Answers(p) == {r.value : r \in {x \in replies[p] : x.ok}}

\* C30: whatever retries is, a get_response call that returned a value has
\* sent at least one request and returns what a successful attempt was
\* answered with; a call that raised has sent a request and raises the
\* exception of a failed attempt.
C30_ReturnsOnlyAfterSuccess ==
    \A t \in Files : \A kind \in Kinds :
        /\ GetResponseReturned(t, kind) =>
              /\ Sent(t, kind) >= 1
              /\ result[<<t, kind>>] \in C30_Answers(<<t, kind>>)
        /\ GetResponseRaised(t, kind) =>
              /\ Sent(t, kind) >= 1
              /\ ~GetResponseReturned(t, kind)

\* The records of the readable .function.json artifacts among listed, one
\* artifact after the other.
RECURSIVE C31_Collected(_)
C31_Collected(listed) ==
    IF listed = <<>> THEN <<>>
    ELSE (IF Head(listed)[2] = "function" /\ C14_Readable(Head(listed))
          THEN disk[Head(listed)].records ELSE <<>>)
         \o C31_Collected(Tail(listed))

\* A .function.json that is JSON and holds both an element that validates
\* and one that does not.
C31_Mixed(p) ==
    /\ p[2] = "function"
    /\ disk[p].state = "complete"
    /\ \E k \in 1 .. Len(disk[p].records) : C14_Required(p) \subseteq disk[p].records[k].keys
    /\ \E k \in 1 .. Len(disk[p].records) : ~(C14_Required(p) \subseteq disk[p].records[k].keys)

C31_Position(p) == CHOOSE k \in 1 .. Len(walk) : walk[k] = p

\* C31: read_output skips a .function.json as a whole: when one of its
\* elements fails validation, the function records returned are those
\* collected from the artifacts listed before it followed by those of the
\* artifacts listed after it, with no element of the failing artifact, not
\* even a valid one, in between; the file records are not affected.
C31_WholeArtifactSkipped ==
    corpus.returned =>
        \A p \in Paths : C31_Mixed(p) =>
            /\ corpus.function_descriptions =
                   C31_Collected(SubSeq(walk, 1, C31_Position(p) - 1))
                   \o C31_Collected(SubSeq(walk, C31_Position(p) + 1, Len(walk)))
            /\ Len(corpus.file_descriptions) = C14_Stored(walk, "file")

\* The first artifact holds a valid and an invalid element, the second
\* work item's artifact is readable: only the latter's records are returned.
C31_Witness ==
    /\ corpus.returned
    /\ walk = TreeOrder
    /\ C31_Mixed(<<1, "function">>)
    /\ disk[<<1, "function">>].records[1] = StoredFunction(ElemF, 1)
    /\ disk[<<2, "function">>] = Complete(<<StoredFunction(ElemF, 2), StoredFunction(ElemG, 2)>>)
    /\ \A t \in Files \ {1, 2} : disk[<<t, "function">>] = Absent
    /\ corpus.function_descriptions = <<StoredFunction(ElemF, 2), StoredFunction(ElemG, 2)>>

====
